---- MODULE Spec2Model ----
(***************************************************************************)
(* A model of cronex (src/cronex/__init__.py): compilation of a cron       *)
(* expression into constraint sets and evaluation of a trigger.            *)
(*                                                                         *)
(* Text is modelled after lexing: a text is a sequence of whitespace-      *)
(* separated tokens, a field token is the sequence of its comma-separated  *)
(* atoms, and an atom is a record naming its textual shape ("5", "1-5/2",  *)
(* "*", "%45", "L", "L-3", "5L", "5#2", "7W", ...).  The tests the code    *)
(* makes on the characters of an atom (isdigit, the regular expressions,   *)
(* startswith / endswith) are tests on that shape here.                    *)
(*                                                                         *)
(* A Python call either returns or raises: an operator that models a       *)
(* function returns a record [exc, val], exc the exception raised          *)
(* (NoExc when the call returns).                                          *)
(***************************************************************************)
EXTENDS Integers, Sequences, FiniteSets, TLC

\* ------------------------------------------------------------------ values

\* Python's None, where the model needs it among integers (Epoch fields).
None == -1

FIELD_SECONDS == "seconds"
FIELD_MINUTES == "minutes"
FIELD_HOURS == "hours"
FIELD_DAYS == "days"
FIELD_MONTHS == "months"
FIELD_DOTW == "days_of_the_week"
FIELD_YEARS == "years"

CONSTRAINT_ANNOTATION == "dynamic"
CONSTRAINT_MONOTONIC == "monotonic"
CONSTRAINT_FIXED == "fixed"

FIELDS ==
    << FIELD_SECONDS, FIELD_MINUTES, FIELD_HOURS, FIELD_DAYS, FIELD_MONTHS,
       FIELD_DOTW, FIELD_YEARS >>

FIELD_RANGES(field) ==
    CASE field = FIELD_SECONDS -> << 0, 59 >>
      [] field = FIELD_MINUTES -> << 0, 59 >>
      [] field = FIELD_HOURS -> << 0, 23 >>
      [] field = FIELD_DAYS -> << 1, 31 >>
      [] field = FIELD_MONTHS -> << 1, 12 >>
      [] field = FIELD_DOTW -> << 0, 6 >>
      [] field = FIELD_YEARS -> << 1970, 9999 >>

\* ASTERISK is frozenset(range(10000)), and the code tests for it by identity
\* ("is ASTERISK").  A fixed constraint is a record: asterisk says that the
\* object is ASTERISK itself, values holds the members of any other set.
ASTERISK == [asterisk |-> TRUE, values |-> {}]

FixedSet(values) == [asterisk |-> FALSE, values |-> values]

\* "value in fixed_set" for a fixed constraint.
Contains(value, fixed) ==
    IF fixed.asterisk THEN value \in 0 .. 9999 ELSE value \in fixed.values

ANNOTATION_DOTW == "?"
ANNOTATION_L_LX == "L/L-?"
ANNOTATION_XHX == "?#?"
ANNOTATION_XL == "?L"
ANNOTATION_XW == "?W"

\* The special tokens and the field texts that replace them.
SUBSTITUTION_TARGETS ==
    { "@annually", "@daily", "@hourly", "@midnight", "@monthly", "@weekly",
      "@yearly" }

\* ------------------------------------------------------------------- atoms

Atom(k, a, b, s) == [k |-> k, a |-> a, b |-> b, s |-> s]

\* "5": digits only.
Num(n) == Atom("num", n, 0, None)
\* "A-B" and "A-B/S".
Range(first, last) == Atom("range", first, last, None)
RangeStep(first, last, step) == Atom("range", first, last, step)
\* "*" and "*/S".
Star == Atom("star", 0, 0, None)
StarStep(step) == Atom("star", 0, 0, step)
\* "?".
Question == Atom("question", 0, 0, None)
\* "%P".
Percent(period) == Atom("percent", period, 0, None)
\* "L", "L-N", "DL", "D#N", "DW".
AtomL == Atom("L", 0, 0, None)
AtomLMinus(n) == Atom("L-", n, 0, None)
AtomXL(d) == Atom("xL", d, 0, None)
AtomXHX(d, n) == Atom("x#x", d, n, None)
AtomXW(d) == Atom("xW", d, 0, None)
\* "": the text between two commas with nothing in it.
Empty == Atom("empty", 0, 0, None)
\* A three-letter day name ("mon": 1) or month name ("nov": 11).
DayName(d) == Atom("dayname", d, 0, None)
MonthName(m) == Atom("monthname", m, 0, None)

\* Tokens of a text: a field (its atoms, in order), a special token, or any
\* other word (of a comment).
FieldToken(atoms) == [t |-> "field", name |-> "", atoms |-> atoms]
SpecialToken(name) == [t |-> "special", name |-> name, atoms |-> << >>]
WordToken(name) == [t |-> "word", name |-> name, atoms |-> << >>]

\* A field with a single atom.
F1(atom) == FieldToken(<< atom >>)

\* -------------------------------------------------------------- exceptions

NoExc == [kind |-> "", field |-> ""]

Exc(kind, field) == [kind |-> kind, field |-> field]

Return(val) == [exc |-> NoExc, val |-> val]

Raise(kind, field) == [exc |-> Exc(kind, field), val |-> {}]

Raised(r) == r.exc # NoExc

\* -------------------------------------------------------------------- time

\* Days from 1970-01-01 to the civil date (proleptic Gregorian calendar).
DaysFromCivil(year, month, day) ==
    LET y == IF month <= 2 THEN year - 1 ELSE year
        era == y \div 400
        yoe == y - era * 400
        mp == IF month > 2 THEN month - 3 ELSE month + 9
        doy == (153 * mp + 2) \div 5 + day - 1
        doe == yoe * 365 + yoe \div 4 - yoe \div 100 + doy
    IN  era * 146097 + doe - 719468

\* time.mktime of a time tuple, the local time zone being UTC.
mktime(when) ==
    DaysFromCivil(when[1], when[2], when[3]) * 86400
        + when[4] * 3600 + when[5] * 60 + when[6]

Epoch(year, month, day, timestamp) ==
    [year |-> year, month |-> month, day |-> day, timestamp |-> timestamp]

\* ------------------------------------------------------------- compilation

\* OutOfBounds.check: TRUE when the call raises, that is when one of the
\* values lies outside the field's range.
OutOfBounds_check(field, values) ==
    LET minimum == FIELD_RANGES(field)[1]
        maximum == FIELD_RANGES(field)[2]
    IN  { v \in values : ~(minimum <= v /\ v <= maximum) } # {}

\* range(first, last + 1, step) as a set.
PyRange(first, last, step) ==
    IF step = 1
    THEN first .. last
    ELSE { v \in first .. last : (v - first) % step = 0 }

\* A variant of StepSlice that counts from the second element.
StepSlice_late(elements, step) ==
    { elements[i] : i \in { j \in 1 .. Len(elements) : j % step = 0 } }

\* elements[::step] as a set, elements a sequence.
StepSlice(elements, step) ==
    { elements[i] : i \in { j \in 1 .. Len(elements) : (j - 1) % step = 0 } }

\* A variant of PyRangeList that stops before last: list(range(first, last)).
PyRangeList_open(first, last) ==
    [i \in 1 .. (IF last > first THEN last - first ELSE 0) |-> first + i - 1]

\* list(range(first, last + 1)).
PyRangeList(first, last) ==
    [i \in 1 .. (IF last >= first THEN last - first + 1 ELSE 0) |-> first + i - 1]

expand(field, expression) ==
    IF expression.k = "num"
    THEN IF OutOfBounds_check(field, {expression.a})
         THEN Raise("OutOfBounds", field)
         ELSE Return({expression.a})
    ELSE IF expression.k \notin {"range", "star"}
    THEN Raise("FieldSyntaxError", field)
    ELSE LET step == IF expression.s = None THEN 1 ELSE expression.s
             fmin == FIELD_RANGES(field)[1]
             fmax == FIELD_RANGES(field)[2]
             first == IF expression.k = "range" THEN expression.a ELSE fmin
             last == IF expression.k = "range" THEN expression.b ELSE fmax
         IN  IF step < 1
             THEN Raise("InvalidField", field)
             ELSE IF OutOfBounds_check(field, {first, last})
             THEN Raise("OutOfBounds", field)
             ELSE IF first < last
             THEN Return(PyRange(first, last, step))
             ELSE Return(StepSlice(PyRangeList(first, fmax)
                                       \o PyRangeList(fmin, last), step))

as_annotation(field, expression) ==
    IF expression.k = "x#x"
    THEN IF field # FIELD_DOTW
         THEN Raise("InvalidUsage", field)
         ELSE IF expression.b < 1 \/ expression.b > 5
         THEN Raise("OutOfBounds", field)
         ELSE IF OutOfBounds_check(field, {expression.a})
         THEN Raise("OutOfBounds", field)
         ELSE Return(<< ANNOTATION_XHX, expression.a, expression.b >>)
    ELSE IF expression.k = "L"
    THEN IF field = FIELD_DOTW
         THEN Raise("Error", "")
         ELSE IF field = FIELD_DAYS
         THEN Return(<< ANNOTATION_L_LX, 0 >>)
         ELSE Raise("InvalidUsage", field)
    ELSE IF expression.k = "L-"
    THEN IF expression.a > 30
         THEN Raise("OutOfBounds", field)
         ELSE IF field # FIELD_DAYS
         THEN Raise("InvalidUsage", field)
         ELSE Return(<< ANNOTATION_L_LX, expression.a >>)
    ELSE IF expression.k = "xL"
    THEN IF OutOfBounds_check(FIELD_DOTW, {expression.a})
         THEN Raise("OutOfBounds", FIELD_DOTW)
         ELSE IF field # FIELD_DOTW
         THEN Raise("InvalidUsage", field)
         ELSE Return(<< ANNOTATION_XL, expression.a >>)
    ELSE IF expression.k = "xW"
    THEN IF field # FIELD_DAYS
         THEN Raise("InvalidUsage", field)
         ELSE IF OutOfBounds_check(field, {expression.a})
         THEN Raise("OutOfBounds", field)
         ELSE Return(<< ANNOTATION_XW, expression.a >>)
    ELSE IF OutOfBounds_check(field, {expression.a})
    THEN \* "OutOfBounds.check(field, dotw)" passes no expression, and
         \* the check evaluates int(None) when one value is out of bounds.
         Raise("TypeError", "")
    ELSE Return(<< ANNOTATION_DOTW, expression.a >>)

\* The value of a parsed atom: (mode, value).
Parsed(mode, value) == Return([mode |-> mode, value |-> value])

\* ANNOTATABLE_FIELD_REGEX.match(atom).
ANNOTATABLE(atom) == atom.k \in {"L", "L-", "x#x", "xL", "xW"}

\* A variant of months_series that forgets the month of the epoch.
months_series_unshifted(period, epoch) ==
    { ((n * period) % 12) + 1 : n \in 0 .. (12 \div period) - 1 }

\* The months of a period that divides 12, counted from the epoch's month.
months_series(period, epoch) ==
    { ((n * period + (epoch.month - 1)) % 12) + 1 :
        n \in 0 .. (12 \div period) - 1 }

\* The seconds of a period that divides 60, counted from the epoch's
\* timestamp ("epoch.timestamp or 0").
seconds_series(period, epoch) ==
    { (n * period + (IF epoch.timestamp = None THEN 0 ELSE epoch.timestamp))
        % 60 : n \in 0 .. (60 \div period) - 1 }

parse_atom(field, atom0, epoch) ==
    IF atom0.k = "question" /\ field \notin {FIELD_DAYS, FIELD_DOTW}
    THEN Raise("InvalidUsage", field)
    ELSE
    LET atom == IF atom0.k = "question" THEN Star ELSE atom0
    IN  IF field = FIELD_DOTW
        THEN IF atom.k = "percent"
             THEN Raise("InvalidUsage", field)
             ELSE IF atom = Star
             THEN Parsed(CONSTRAINT_ANNOTATION, {})
             ELSE LET expanded == expand(field, atom)
                      days == { as_annotation(field, Num(n)).val :
                                    n \in expanded.val }
                  IN  IF Raised(expanded)
                      THEN expanded
                      ELSE IF Cardinality(days) = 7
                      THEN Raise("InvalidField", field)
                      ELSE Parsed(CONSTRAINT_ANNOTATION, days)
        ELSE IF ANNOTATABLE(atom)
        THEN LET annotation == as_annotation(field, atom)
             IN  IF Raised(annotation)
                 THEN annotation
                 ELSE Parsed(CONSTRAINT_ANNOTATION, {annotation.val})
        ELSE IF atom.k # "percent"
        THEN LET expanded == expand(field, atom)
             IN  IF Raised(expanded)
                 THEN expanded
                 ELSE Parsed(CONSTRAINT_FIXED, expanded.val)
        ELSE IF None \in {epoch.year, epoch.month, epoch.day}
                /\ field \in {FIELD_YEARS, FIELD_MONTHS, FIELD_DAYS}
        THEN Raise("FieldSyntaxError", field)
        ELSE IF epoch.timestamp = None
                /\ field \in {FIELD_HOURS, FIELD_MINUTES, FIELD_SECONDS}
        THEN Raise("FieldSyntaxError", field)
        ELSE LET period == atom.a
             IN  IF period < 2
                 THEN Raise("OutOfBounds", field)
                 ELSE IF field = FIELD_YEARS
                 THEN Parsed(CONSTRAINT_FIXED,
                             PyRange(epoch.year, FIELD_RANGES(field)[2] - 1,
                                     period))
                 ELSE IF field = FIELD_MONTHS /\ 12 % period = 0
                 THEN Parsed(CONSTRAINT_FIXED, months_series(period, epoch))
                 ELSE IF field = FIELD_SECONDS /\ 60 % period = 0
                 THEN Parsed(CONSTRAINT_FIXED, seconds_series(period, epoch))
                 ELSE Parsed(CONSTRAINT_MONOTONIC, period)

\* The atoms of a field after the name substitutions of atomize.
Substituted(field, contents) ==
    [i \in 1 .. Len(contents) |->
        LET atom == contents[i]
        IN  IF field = FIELD_DOTW
            THEN IF atom.k = "dayname" THEN Num(atom.a)
                 ELSE IF atom = Num(7) \/ atom = AtomL THEN Num(0)
                 ELSE atom
            ELSE IF field = FIELD_MONTHS /\ atom.k = "monthname"
            THEN Num(atom.a)
            ELSE atom]

atomize(field, contents) ==
    LET atoms == Substituted(field, contents)
        among == { atoms[i] : i \in 1 .. Len(atoms) }
    IN  IF Len(atoms) > 1 /\ (Star \in among \/ Question \in among)
        THEN Raise("InvalidUsage", field)
        ELSE IF Empty \in among
        THEN Raise("FieldSyntaxError", field)
        ELSE Return(among)

Min(S) == CHOOSE v \in S : \A u \in S : v <= u

RECURSIVE simplify_loop(_, _)
\* The loop of simplify_monotonic_series over sorted(series): left holds the
\* values not yet visited, factors those kept so far.
simplify_loop(left, factors) ==
    IF left = {}
    THEN factors
    ELSE LET value == Min(left)
         IN  IF factors = {}
             THEN simplify_loop(left \ {value}, {value})
             ELSE IF \E factor \in factors : value % factor = 0
             THEN simplify_loop(left \ {value}, factors)
             ELSE simplify_loop(left \ {value}, factors \cup {value})

\* A variant of simplify_monotonic_series that removes only the multiples of
\* the smallest period.
simplify_monotonic_series_smallest(series) ==
    { value \in series : value = Min(series) \/ value % Min(series) # 0 }

simplify_monotonic_series(series) == simplify_loop(series, {})

\* The atoms of one whitespace-separated part of the text; a part that is no
\* field (a word, a special token) is text that matches no grammar.
AtomsOf(part) ==
    IF part.t = "field" THEN part.atoms ELSE << Atom("word", 0, 0, None) >>

\* The atoms of a field whose parse_atom completed with the given mode.
atoms_of_mode(parsed, mode) ==
    { a \in DOMAIN parsed : ~Raised(parsed[a]) /\ parsed[a].val.mode = mode }

\* What the loop over the atoms adds to the set of the given mode.
values_of_mode(parsed, mode) ==
    { parsed[a].val.value : a \in atoms_of_mode(parsed, mode) }

\* "if len(field_fixed) == (end - begin + 1): field_fixed = ASTERISK"
fixed_of_field(field, field_fixed) ==
    IF Cardinality(field_fixed) = FIELD_RANGES(field)[2] - FIELD_RANGES(field)[1] + 1
    THEN ASTERISK
    ELSE FixedSet(field_fixed)

\* The monotonic series kept for a field, given its fixed constraint.
monotonic_of_field(fixed, field_monotonic) ==
    IF fixed = ASTERISK
    THEN {}
    ELSE IF field_monotonic # {}
    THEN simplify_monotonic_series(field_monotonic)
    ELSE field_monotonic

\* One iteration of the loop of generate_constraint_sets over the fields,
\* once every atom of the field has been parsed.  The atoms come from a
\* frozenset, so they are visited in no fixed order: excs holds every
\* exception the iteration may raise (none: it completes).
constraints_of_field(field, parsed) ==
    [excs |-> { parsed[a].exc : a \in { b \in DOMAIN parsed : Raised(parsed[b]) } },
     annotations |-> UNION values_of_mode(parsed, CONSTRAINT_ANNOTATION),
     monotonic |->
        monotonic_of_field(
            fixed_of_field(field, UNION values_of_mode(parsed, CONSTRAINT_FIXED)),
            values_of_mode(parsed, CONSTRAINT_MONOTONIC)),
     fixed |->
        fixed_of_field(field, UNION values_of_mode(parsed, CONSTRAINT_FIXED))]

field_constraints(field, part, epoch) ==
    LET atoms == atomize(field, AtomsOf(part))
    IN  IF Raised(atoms)
        THEN [excs |-> {atoms.exc}, annotations |-> {}, monotonic |-> {},
              fixed |-> FixedSet({})]
        ELSE constraints_of_field(
                field, [a \in atoms.val |-> parse_atom(field, a, epoch)])

\* generate_constraint_sets: excs holds every exception the call may raise
\* (none: it returns val).  zip(FIELDS, parts) stops at the shorter of the
\* two, and Fields(*monotonic) raises TypeError on fewer than seven values.
generate_constraint_sets(parts, epoch) ==
    LET n == IF Len(parts) < Len(FIELDS) THEN Len(parts) ELSE Len(FIELDS)
        per == [i \in 1 .. n |-> field_constraints(FIELDS[i], parts[i], epoch)]
        failing == { i \in 1 .. n : per[i].excs # {} }
    IN  IF failing # {}
        THEN [excs |-> per[Min(failing)].excs, val |-> {}]
        ELSE IF n < Len(FIELDS)
        THEN [excs |-> {Exc("TypeError", "")}, val |-> {}]
        ELSE [excs |-> {},
              val |->
                [annotations |-> UNION { per[i].annotations : i \in 1 .. n },
                 monotonic |->
                    [f \in { FIELDS[i] : i \in 1 .. n } |->
                        per[CHOOSE i \in 1 .. n : FIELDS[i] = f].monotonic],
                 fixed |->
                    [f \in { FIELDS[i] : i \in 1 .. n } |->
                        per[CHOOSE i \in 1 .. n : FIELDS[i] = f].fixed]]]

\* The fields a special token stands for.
SUBSTITUTIONS(target) ==
    CASE target \in {"@annually", "@yearly"} ->
            << F1(Num(0)), F1(Num(0)), F1(Num(1)), F1(Num(1)), F1(Star) >>
      [] target \in {"@daily", "@midnight"} ->
            << F1(Num(0)), F1(Num(0)), F1(Star), F1(Star), F1(Star) >>
      [] target = "@hourly" ->
            << F1(Num(0)), F1(Star), F1(Star), F1(Star), F1(Star) >>
      [] target = "@monthly" ->
            << F1(Num(0)), F1(Num(0)), F1(Num(1)), F1(Star), F1(Star) >>
      [] target = "@weekly" ->
            << F1(Num(0)), F1(Num(0)), F1(Star), F1(Star), F1(Num(0)) >>

\* text.split(None, maxsplit): a list of strings, a string being the sequence
\* of its tokens.
Split(text, maxsplit) ==
    IF Len(text) <= maxsplit
    THEN [i \in 1 .. Len(text) |-> << text[i] >>]
    ELSE [i \in 1 .. maxsplit + 1 |->
            IF i <= maxsplit
            THEN << text[i] >>
            ELSE SubSeq(text, maxsplit + 1, Len(text))]

RECURSIVE Replace(_, _)
\* text.replace(old, ""), on tokens.
Replace(text, old) ==
    IF old = << >> \/ Len(text) < Len(old)
    THEN text
    ELSE IF SubSeq(text, 1, Len(old)) = old
    THEN Replace(SubSeq(text, Len(old) + 1, Len(text)), old)
    ELSE << text[1] >> \o Replace(Tail(text), old)

\* A variant of expected_fields that forgets the optional fields.
expected_fields_unflagged(with_seconds, with_years) == 5

\* The expected number of fields of a text that is no special token.
expected_fields(with_seconds, with_years) ==
    5 + (IF with_seconds THEN 1 ELSE 0) + (IF with_years THEN 1 ELSE 0)

\* CronExpression.__init__, for an epoch that is an Epoch: excs holds every
\* exception the call may raise (none: it returns), val the attributes it
\* sets.
CronExpression_init(text, epoch, with_seconds, with_years) ==
    LET parts == Split(text, 1)
        \* "expression" is parts[0] when the text has two parts, and the list
        \* parts itself otherwise, which equals no target.
        targets == { target \in SUBSTITUTION_TARGETS :
                        Len(parts) = 2
                        /\ parts[1] = << SpecialToken(target) >> }
        substituted == targets # {}
        replacement ==
            (IF with_seconds THEN << F1(Num(0)) >> ELSE << >>)
                \o SUBSTITUTIONS(CHOOSE target \in targets : TRUE)
                \o (IF with_years THEN << F1(Star) >> ELSE << >>)
        expected == expected_fields(with_seconds, with_years)
        split == Split(text, expected)
        len_fields == Len(split)
        comment ==
            IF substituted
            THEN parts[2]
            ELSE IF len_fields > expected THEN split[len_fields] ELSE << >>
        fields ==
            IF substituted
            THEN replacement
            ELSE (IF with_seconds THEN << >> ELSE << F1(Star) >>)
                    \o [i \in 1 .. expected |-> split[i][1]]
                    \o (IF with_years THEN << >> ELSE << F1(Star) >>)
    IN  IF ~substituted /\ len_fields < expected
        THEN [excs |-> {Exc("MissingFieldsError", "")}, val |-> {}]
        ELSE
        LET generated == generate_constraint_sets(fields, epoch)
        IN  IF generated.excs # {}
            THEN \* "except Error as e: raise Error(...)": an exception of the
                 \* module is replaced by an Error, any other passes through.
                 [excs |-> { IF e.kind = "TypeError" THEN e ELSE Exc("Error", "")
                                : e \in generated.excs },
                  val |-> {}]
            ELSE [excs |-> {},
                  val |-> [constraints |-> generated.val,
                           epoch |-> epoch,
                           text |-> text,
                           with_seconds |-> with_seconds,
                           with_years |-> with_years,
                           comment |-> comment,
                           expression |-> Replace(text, comment)]]

\* CronExpression.__eq__, self the attributes of a CronExpression and other
\* those of another one (an object of any other kind has no _constraints:
\* the AttributeError is caught and the answer is False).
CronExpression_eq(self, other) ==
    IF ~other.constructed
    THEN FALSE
    ELSE IF self.attrs.constraints # other.attrs.constraints
    THEN FALSE
    ELSE IF \A field \in DOMAIN self.attrs.constraints.monotonic :
                self.attrs.constraints.monotonic[field] = {}
    THEN TRUE
    ELSE self.attrs.epoch = other.attrs.epoch

\* -------------------------------------------------------------- evaluation

check_monotonic(value, series, numerator) ==
    IF series # {} /\ value # 0
    THEN LET divided == IF numerator # 0 THEN value \div numerator ELSE value
         IN  \E item \in series : divided % item = 0
    ELSE FALSE

\* A variant of last_day_of_month that knows no leap year.
last_day_of_month_common(year, month) ==
    IF month \in {1, 3, 5, 7, 8, 10, 12}
    THEN 31
    ELSE IF month \in {4, 6, 9, 11} THEN 30 ELSE 28

\* A variant of last_day_of_month in which every fourth year is a leap year.
last_day_of_month_julian(year, month) ==
    IF month \in {1, 3, 5, 7, 8, 10, 12}
    THEN 31
    ELSE IF month \in {4, 6, 9, 11}
    THEN 30
    ELSE 28 + (IF year % 4 = 0 THEN 1 ELSE 0)

\* The last day of the month, as annotate computes it.
last_day_of_month(year, month) ==
    IF month \in {1, 3, 5, 7, 8, 10, 12}
    THEN 31
    ELSE IF month \in {4, 6, 9, 11}
    THEN 30
    ELSE 28 + (IF year % 4 = 0 /\ (year % 100 # 0 \/ year % 400 = 0)
               THEN 1 ELSE 0)

\* A variant of annotate_dow without the correction from March onwards.
annotate_dow_uncorrected(year, month, day) ==
    LET y == IF month < 3 THEN year - 1 ELSE year
    IN  (((23 * month) \div 9) + day + 4 + year
            + (y \div 4) - (y \div 100) + (y \div 400)) % 7

\* The day of the week, as annotate computes it (0: Sunday).
annotate_dow(year, month, day) ==
    LET y == IF month < 3 THEN year - 1 ELSE year
        dow == ((23 * month) \div 9) + day + 4 + year
                 + (y \div 4) - (y \div 100) + (y \div 400)
    IN  (IF month >= 3 THEN dow - 2 ELSE dow) % 7

\* A variant of annotate_XW in which a Friday stands for no Saturday.
annotate_XW_monday_only(dow, day, last) ==
    IF 1 <= dow /\ dow <= 5
    THEN {<< ANNOTATION_XW, day >>}
            \cup (IF dow = 1 /\ day > 1
                  THEN {<< ANNOTATION_XW, day - 1 >>} ELSE {})
            \cup (IF dow = 1 /\ day = 3
                  THEN {<< ANNOTATION_XW, 1 >>} ELSE {})
    ELSE {}

\* The nearest-weekday annotations of annotate.
annotate_XW(dow, day, last) ==
    IF 1 <= dow /\ dow <= 5
    THEN {<< ANNOTATION_XW, day >>}
            \cup (IF dow = 1 /\ day > 1
                  THEN {<< ANNOTATION_XW, day - 1 >>} ELSE {})
            \cup (IF dow = 1 /\ day = 3
                  THEN {<< ANNOTATION_XW, 1 >>} ELSE {})
            \cup (IF dow = 5 /\ day < last
                  THEN {<< ANNOTATION_XW, day + 1 >>} ELSE {})
            \cup (IF dow = 5 /\ day + 3 > last
                  THEN {<< ANNOTATION_XW, day + 2 >>} ELSE {})
    ELSE {}

annotate(year, month, day) ==
    LET last == last_day_of_month(year, month)
        dow == annotate_dow(year, month, day)
    IN  { << ANNOTATION_L_LX, last - day >>,
          << ANNOTATION_XHX, dow, ((day - 1) \div 7) + 1 >>,
          << ANNOTATION_DOTW, dow >> }
            \cup (IF last - day < 7 THEN {<< ANNOTATION_XL, dow >>} ELSE {})
            \cup annotate_XW(dow, day, last)

\* The day and day-of-the-week decision that ends constraints_met.
days_met(day, dS, year, month, annotations, monotonic, fixed) ==
    IF (fixed[FIELD_DAYS] # ASTERISK /\ Contains(day, fixed[FIELD_DAYS]))
          \/ check_monotonic(dS, monotonic[FIELD_DAYS], 86400)
    THEN TRUE
    ELSE IF annotations # {}
    THEN annotate(year, month, day) \cap annotations # {}
    ELSE TRUE

\* constraints_met for a time tuple "when".
constraints_met(when, epoch, with_seconds, annotations, monotonic, fixed) ==
    IF Len(when) > 9
    THEN Raise("Error", "")
    ELSE IF Len(when) < (IF with_seconds THEN 6 ELSE 5)
    THEN Raise("Error", "")
    ELSE IF None \in {epoch.timestamp, epoch.year, epoch.month}
    THEN \* "timestamp - None", "year - None"
         Raise("TypeError", "")
    ELSE
    LET padded == IF Len(when) < 9
                  THEN when \o SubSeq(<< 0, 0, 0, -1 >>, Len(when) - 4, 4)
                  ELSE when
        timestamp == mktime(padded)
        year == padded[1]
        month == padded[2]
        day == padded[3]
        hour == padded[4]
        minute == padded[5]
        second == padded[6]
        dS == timestamp - epoch.timestamp
        dY == year - epoch.year
        dM == dY * 12 + month - epoch.month
    IN  IF ~(Contains(second, fixed[FIELD_SECONDS])
               \/ check_monotonic(dS, monotonic[FIELD_SECONDS], 0))
        THEN Return(FALSE)
        ELSE IF ~(Contains(minute, fixed[FIELD_MINUTES])
                    \/ check_monotonic(dS, monotonic[FIELD_MINUTES], 60))
        THEN Return(FALSE)
        ELSE IF ~(Contains(hour, fixed[FIELD_HOURS])
                    \/ check_monotonic(dS, monotonic[FIELD_HOURS], 3600))
        THEN Return(FALSE)
        ELSE IF ~(Contains(month, fixed[FIELD_MONTHS])
                    \/ check_monotonic(dM, monotonic[FIELD_MONTHS], 0))
        THEN Return(FALSE)
        ELSE IF ~(Contains(year, fixed[FIELD_YEARS])
                    \/ check_monotonic(dY, monotonic[FIELD_YEARS], 0))
        THEN Return(FALSE)
        ELSE Return(days_met(day, dS, year, month, annotations, monotonic,
                             fixed))

\* ------------------------------------------------------------------ inputs

\* The months of the calendar the candidate instants are drawn from: the
\* first MaxMonths months from January 1970, and the months of the worked
\* examples.
MaxMonths == 12

MonthPages ==
    { << 1970 + ((i - 1) \div 12), ((i - 1) % 12) + 1 >> : i \in 1 .. MaxMonths }
        \cup { << 2010, 2 >>, << 2010, 11 >>, << 2012, 2 >> }

\* The number of days of a month, by counting the days to the next month.
DaysIn(year, month) ==
    (IF month = 12
     THEN DaysFromCivil(year + 1, 1, 1)
     ELSE DaysFromCivil(year, month + 1, 1)) - DaysFromCivil(year, month, 1)

\* The day of the week of a date (0: Sunday), by counting the days from
\* Thursday 1970-01-01.
Weekday(year, month, day) == (DaysFromCivil(year, month, day) + 4) % 7

Dates ==
    UNION { { << p[1], p[2], d >> : d \in 1 .. DaysIn(p[1], p[2]) } :
                p \in MonthPages }

\* The day after a date.
NextDate(year, month, day) ==
    IF day < DaysIn(year, month)
    THEN << year, month, day + 1 >>
    ELSE IF month < 12 THEN << year, month + 1, 1 >> ELSE << year + 1, 1, 1 >>

\* The caller's clock is a time tuple.  One of five values (no seconds) starts
\* at 00:00 of the first day of a month and advances by days; one of six
\* values starts at 1970-01-01 00:00:00 and advances by half minutes,
\* minutes, hours and days, MaxClock times each at most.
MaxClock == 2

DateStarts ==
    { << 1970, 1, 1, 0, 0 >>, << 2010, 2, 1, 0, 0 >>, << 2010, 11, 1, 0, 0 >>,
      << 2012, 2, 1, 0, 0 >> }

ClockStart == << 1970, 1, 1, 0, 0, 0 >>

DEFAULT_EPOCH == Epoch(1970, 1, 1, 0)

Input(text, epoch, with_seconds, with_years) ==
    [text |-> text, epoch |-> epoch, with_seconds |-> with_seconds,
     with_years |-> with_years]

\* "0 0 <days> * <dow>"
DayText(days, dow) == << F1(Num(0)), F1(Num(0)), days, F1(Star), dow >>

DaysFields ==
    { F1(Star), F1(Question), F1(Num(5)), FieldToken(<< Num(1), Num(15) >>),
      F1(Range(1, 31)), F1(AtomL), F1(AtomXW(7)), F1(Percent(45)) }

DowFields ==
    { F1(Star), F1(Num(1)), F1(DayName(1)), FieldToken(<< Num(1), Num(3) >>),
      F1(AtomXL(5)) }

DayInputs ==
    { Input(DayText(days, dow), DEFAULT_EPOCH, FALSE, FALSE) :
        days \in DaysFields, dow \in DowFields }

\* A text of stars with one field replaced: "* * %2 * *".
StarsWith(count, position, field) ==
    [i \in 1 .. count |-> IF i = position THEN field ELSE F1(Star)]

\* "%2 * * * *", "* %2 * * *", "* * %2 * *" and, with a seconds field,
\* "%7 * * * * *".
ClockInputs ==
    { Input(StarsWith(5, position, F1(Percent(2))), DEFAULT_EPOCH, FALSE,
            FALSE) : position \in 1 .. 3 }
        \cup { Input(StarsWith(6, 1, F1(Percent(7))), DEFAULT_EPOCH, TRUE,
                     FALSE) }

\* Texts of no more than MaxFields fields, each a star but possibly the first,
\* which is then the number 60 (in no field's range but that of the years),
\* under the four configurations of with_seconds and with_years.
MaxFields == 7

FieldCountInputs ==
    { Input(StarsWith(count, position, F1(Num(60))), DEFAULT_EPOCH,
            with_seconds, with_years) :
        count \in 0 .. MaxFields, position \in 0 .. 1,
        with_seconds \in BOOLEAN, with_years \in BOOLEAN }

\* A special token alone ("@yearly"), and followed by a comment
\* ("@yearly x") with neither or both of the optional fields.
SpecialInputs ==
    { Input(<< SpecialToken(target) >>, DEFAULT_EPOCH, FALSE, FALSE) :
        target \in SUBSTITUTION_TARGETS }
        \cup { Input(<< SpecialToken(target), WordToken("x") >>, DEFAULT_EPOCH,
                     both, both) :
                 target \in SUBSTITUTION_TARGETS, both \in BOOLEAN }

\* The five-field texts a special token stands for: "0 0 1 1 *", ...
EquivalentInputs ==
    { Input(SUBSTITUTIONS(target), DEFAULT_EPOCH, FALSE, FALSE) :
        target \in SUBSTITUTION_TARGETS }

\* Texts with a number outside the range of its field: "60 * * * *",
\* "* 24 * * *", "* * 32 * *", "* * 0 * *", "* * * 13 *", "* * * * 8".
OutOfRangeInputs ==
    { Input(StarsWith(5, p[1], F1(Num(p[2]))), DEFAULT_EPOCH, FALSE, FALSE) :
        p \in { << 1, 60 >>, << 2, 24 >>, << 3, 32 >>, << 3, 0 >>, << 4, 13 >>,
                << 5, 8 >> } }

\* "* * * * *" with an epoch that lacks its timestamp, its date, or the day
\* of its date.
PartialEpochInputs ==
    { Input(StarsWith(5, 0, F1(Star)), epoch, FALSE, FALSE) :
        epoch \in { Epoch(1970, 1, 1, None), Epoch(None, None, None, 0),
                    Epoch(1970, 1, None, 0) } }

\* "0 0 * * 5#<n>": the n-th Friday of the month.
NthInputs ==
    { Input(DayText(F1(Star), F1(AtomXHX(5, n))), DEFAULT_EPOCH, FALSE, FALSE) :
        n \in 0 .. 6 }

\* What a caller does: the expression it constructs, and the instant its
\* clock starts from.
\* Texts whose fixed values cover a field between several atoms, with and
\* without periods beside them: "0-30,31-59 * * * *", "0-59,%7 * * * *",
\* "0-30,31-59,%7 %4,%6,%8 * * *", "%4,%6,%8 * * * *"; and, with a years
\* field and an epoch in 1969, "* * * * * %4000" and
\* "* * * * * 1970-9999,%4000".
CoverInputs ==
    { Input(StarsWith(5, 1, part), DEFAULT_EPOCH, FALSE, FALSE) :
        part \in { FieldToken(<< Range(0, 30), Range(31, 59) >>),
                   FieldToken(<< Range(0, 59), Percent(7) >>),
                   FieldToken(<< Percent(4), Percent(6), Percent(8) >>) } }
        \cup { Input(<< FieldToken(<< Range(0, 30), Range(31, 59),
                                      Percent(7) >>),
                        FieldToken(<< Percent(4), Percent(6), Percent(8) >>),
                        F1(Star), F1(Star), F1(Star) >>,
                     DEFAULT_EPOCH, FALSE, FALSE) }
        \cup { Input(StarsWith(6, 6, part), Epoch(1969, 12, 31, -1), FALSE,
                     TRUE) :
                 part \in { F1(Percent(4000)),
                            FieldToken(<< Range(1970, 9999),
                                          Percent(4000) >>) } }

\* "0 0 %2 * *" with the epoch 2010-11-16 23:59 (1289951940 seconds after
\* 1970-01-01 00:00).
CalendarInputs ==
    { Input(DayText(F1(Percent(2)), F1(Star)),
            Epoch(2010, 11, 16, 1289951940), FALSE, FALSE) }

Scenarios ==
    (DayInputs \X DateStarts)
        \cup (ClockInputs \X {ClockStart})
        \cup ((FieldCountInputs \cup SpecialInputs \cup EquivalentInputs
                 \cup OutOfRangeInputs \cup PartialEpochInputs \cup CoverInputs)
                \X {<< 1970, 1, 1, 0, 0 >>})
        \cup (NthInputs \X {<< 2010, 11, 1, 0, 0 >>})
        \cup (CalendarInputs \X {<< 2010, 11, 16, 0, 0 >>})

\* ------------------------------------------------------------------- state

VARIABLES
    input,      \* the caller's expression: text, epoch and the two flags
    now,        \* the caller's candidate instant, a time tuple
    cron,       \* the CronExpression's attributes, once constructed
    outcome     \* what the last call did: returned a value or raised (with
                \* threads: how far the call of each thread has come)

vars == << input, now, cron, outcome >>

NoObject == [constructed |-> FALSE]

NoCall == [op |-> "none", when |-> << >>, exc |-> NoExc, val |-> FALSE]

Init ==
    /\ \E scenario \in Scenarios :
          /\ input = scenario[1]
          /\ now = scenario[2]
    /\ cron = NoObject
    /\ outcome = NoCall

\* cron = CronExpression(text, epoch, with_seconds, with_years)
Construct ==
    /\ cron = NoObject
    /\ outcome.op = "none"
    /\ LET made == CronExpression_init(input.text, input.epoch,
                                       input.with_seconds, input.with_years)
       IN  \/ /\ made.excs = {}
              /\ cron' = [constructed |-> TRUE, attrs |-> made.val]
              /\ outcome' = [NoCall EXCEPT !.op = "init"]
           \/ /\ \E e \in made.excs :
                    outcome' = [NoCall EXCEPT !.op = "init", !.exc = e]
              /\ cron' = cron
    /\ UNCHANGED << input, now >>

\* cron.check_trigger(now)
CheckTrigger ==
    /\ cron # NoObject
    /\ LET self == cron.attrs
           met == constraints_met(now, self.epoch, self.with_seconds,
                                  self.constraints.annotations,
                                  self.constraints.monotonic,
                                  self.constraints.fixed)
       IN  outcome' = [op |-> "check_trigger", when |-> now, exc |-> met.exc,
                       val |-> IF Raised(met) THEN FALSE ELSE met.val]
    /\ UNCHANGED << input, now, cron >>

\* The caller's loop: once the trigger has been checked at an instant, time
\* passes.
Tick ==
    /\ cron # NoObject
    /\ outcome.op = "check_trigger"
    /\ outcome.when = now
    /\ \/ /\ Len(now) = 5
          /\ NextDate(now[1], now[2], now[3]) \in Dates
          /\ now' = NextDate(now[1], now[2], now[3]) \o << now[4], now[5] >>
       \/ /\ Len(now) = 6
          /\ now[6] = 0
          /\ now' = [now EXCEPT ![6] = 30]
       \/ /\ Len(now) = 6
          /\ now[5] < MaxClock
          /\ now' = [now EXCEPT ![5] = now[5] + 1]
       \/ /\ Len(now) = 6
          /\ now[4] < MaxClock
          /\ now' = [now EXCEPT ![4] = now[4] + 1]
       \/ /\ Len(now) = 6
          /\ now[3] <= MaxClock
          /\ now' = [now EXCEPT ![3] = now[3] + 1]
    /\ UNCHANGED << input, cron, outcome >>

Next == Construct \/ CheckTrigger \/ Tick

Spec == Init /\ [][Next]_vars

\* ------------------------------------------------------------------- calls

\* The functions of the module are also called on their own, as the tests
\* do: a call is the function's name and its arguments.
Call(fn, field, atom, epoch) ==
    [fn |-> fn, field |-> field, atom |-> atom, epoch |-> epoch]

\* The largest step of the ranges expand is called with.
MaxStep == 8

\* The bounds of the ranges expand is called with: every value of a field of
\* no more than 24 values, the two lowest and the two highest of the others.
BoundsOf(field) ==
    LET fmin == FIELD_RANGES(field)[1]
        fmax == FIELD_RANGES(field)[2]
    IN  IF fmax - fmin < 24
        THEN fmin .. fmax
        ELSE {fmin, fmin + 1, fmax - 1, fmax}

\* expand(field, "A-B") and expand(field, "A-B/S")
ExpandCalls ==
    UNION { { Call("expand", field, Atom("range", first, last, step),
                   DEFAULT_EPOCH) :
                first \in BoundsOf(field), last \in BoundsOf(field),
                step \in {None} \cup (1 .. MaxStep) } :
            field \in { FIELDS[i] : i \in 1 .. Len(FIELDS) } }

\* The epochs parse_atom is called with: a date and a timestamp, a date
\* alone, a timestamp alone.
CallEpochs ==
    { Epoch(year, month, 1, timestamp) :
        year \in {1970, 1999}, month \in 1 .. 12, timestamp \in {0, None} }
        \cup { Epoch(1970, 1, 1, timestamp) :
                 timestamp \in {1, 59, 60, 61, 3599, 86399, 946684799} }
        \cup { Epoch(None, None, None, timestamp) : timestamp \in {0, 45} }

\* The largest period parse_atom is called with.
MaxPeriod == 60

\* parse_atom(field, "%P", epoch)
PeriodCalls ==
    { Call("parse_atom", field, Percent(period), epoch) :
        field \in {FIELD_SECONDS, FIELD_MONTHS}, period \in 0 .. MaxPeriod,
        epoch \in CallEpochs }

\* parse_atom("years", "%P", epoch), with epochs in the first and the last
\* year of the field and between, and periods that do and do not reach the
\* last year from them.
YearCalls ==
    { Call("parse_atom", FIELD_YEARS, Percent(period),
           Epoch(year, 1, 1, None)) :
        period \in {0, 1, 2, 3, 1000, 5000, 6000, 8000, 8029},
        year \in {1970, 1999, 2000, 2100, 2200, 9998, 9999} }

\* The dynamic constructs: "L", "L-<n>", "<d>L", "<d>#<n>", "<d>W", with
\* numbers inside and outside their bounds.
DynamicAtoms ==
    {AtomL}
        \cup { AtomLMinus(n) : n \in {0, 3, 30, 31, 40} }
        \cup { AtomXL(d) : d \in {0, 5, 6, 7, 8} }
        \cup { AtomXHX(d, n) : d \in {0, 5, 7}, n \in {0, 1, 5, 6} }
        \cup { AtomXW(d) : d \in {0, 1, 15, 31, 32} }

\* as_annotation(field, expression) and parse_atom(field, atom, epoch) with a
\* dynamic construct in each field.
DynamicCalls ==
    { Call(fn, FIELDS[i], atom, DEFAULT_EPOCH) :
        fn \in {"as_annotation", "parse_atom"}, i \in 1 .. Len(FIELDS),
        atom \in DynamicAtoms }

\* The expressions compared with one another: "* * * * *", "0 0 * * *", a
\* period in the minutes, the hours, the days, and in the seconds (one that
\* divides 60, one that does not), under three epochs.
ComparedInputs ==
    { Input(text, epoch, Len(text) = 6, FALSE) :
        text \in { StarsWith(5, 0, F1(Star)),
                   DayText(F1(Star), F1(Star)),
                   StarsWith(5, 1, F1(Percent(91))),
                   StarsWith(5, 2, F1(Percent(91))),
                   StarsWith(5, 3, F1(Percent(91))),
                   StarsWith(6, 1, F1(Percent(91))),
                   StarsWith(6, 1, F1(Percent(20))) },
        epoch \in { Epoch(1999, 1, 1, 3333), Epoch(2020, 9, 6, 3333),
                    Epoch(1999, 1, 1, 2222) } }

\* left == right
EqCalls ==
    { [fn |-> "eq", left |-> left, right |-> right] :
        left \in ComparedInputs, right \in ComparedInputs }

\* The largest period simplify_monotonic_series is called with.
MaxSeries == 9

\* simplify_monotonic_series(series), series a non-empty set of periods.
SimplifyCalls ==
    { [fn |-> "simplify_monotonic_series", series |-> series] :
        series \in (SUBSET (1 .. MaxSeries)) \ {{}} }

\* The years of the dates annotate is called with: the first and the last of
\* the field, leap years (one divisible by 400), and years divisible by 100
\* that are not.
AnnotateYears == {1970, 2000, 2010, 2012, 2100, 2400, 9999}

\* annotate(year, month, day), for every date of those years.
AnnotateCalls ==
    { [fn |-> "annotate", year |-> year, month |-> month, day |-> day] :
        year \in AnnotateYears, month \in 1 .. 12, day \in 1 .. 31 }
        \ { call \in [fn : {"annotate"}, year : AnnotateYears,
                      month : 1 .. 12, day : 29 .. 31] :
              call.day > DaysIn(call.year, call.month) }

CallInputs ==
    ExpandCalls \cup PeriodCalls \cup YearCalls \cup DynamicCalls \cup EqCalls
        \cup SimplifyCalls \cup AnnotateCalls

InitCalls ==
    /\ input \in CallInputs
    /\ now = << >>
    /\ cron = NoObject
    /\ outcome = NoCall

\* expand(field, expression)
CallExpand ==
    /\ outcome.op = "none"
    /\ input.fn = "expand"
    /\ LET result == expand(input.field, input.atom)
       IN  outcome' = [op |-> "expand", when |-> << >>, exc |-> result.exc,
                       val |-> result.val]
    /\ UNCHANGED << input, now, cron >>

\* parse_atom(field, atom, epoch)
CallParseAtom ==
    /\ outcome.op = "none"
    /\ input.fn = "parse_atom"
    /\ LET result == parse_atom(input.field, input.atom, input.epoch)
       IN  outcome' = [op |-> "parse_atom", when |-> << >>,
                       exc |-> result.exc, val |-> result.val]
    /\ UNCHANGED << input, now, cron >>

\* as_annotation(field, expression)
CallAsAnnotation ==
    /\ outcome.op = "none"
    /\ input.fn = "as_annotation"
    /\ LET result == as_annotation(input.field, input.atom)
       IN  outcome' = [op |-> "as_annotation", when |-> << >>,
                       exc |-> result.exc, val |-> result.val]
    /\ UNCHANGED << input, now, cron >>

\* The object CronExpression(text, epoch, with_seconds, with_years) of a
\* construction that raises nothing.
Constructed(made) == [constructed |-> TRUE, attrs |-> made.val]

\* CronExpression(...) == CronExpression(...)
CallEq ==
    /\ outcome.op = "none"
    /\ input.fn = "eq"
    /\ \E left \in {CronExpression_init(input.left.text, input.left.epoch,
                                        input.left.with_seconds,
                                        input.left.with_years)} :
       \E right \in {CronExpression_init(input.right.text, input.right.epoch,
                                         input.right.with_seconds,
                                         input.right.with_years)} :
           /\ left.excs = {}
           /\ right.excs = {}
           /\ \E self \in {Constructed(left)} :
              \E other \in {Constructed(right)} :
                  outcome' = [op |-> "eq", when |-> << >>, exc |-> NoExc,
                              val |-> CronExpression_eq(self, other)]
    /\ UNCHANGED << input, now, cron >>

\* simplify_monotonic_series(series)
CallSimplify ==
    /\ outcome.op = "none"
    /\ input.fn = "simplify_monotonic_series"
    /\ outcome' = [op |-> "simplify_monotonic_series", when |-> << >>,
                   exc |-> NoExc,
                   val |-> simplify_monotonic_series(input.series)]
    /\ UNCHANGED << input, now, cron >>

\* annotate(year, month, day)
CallAnnotate ==
    /\ outcome.op = "none"
    /\ input.fn = "annotate"
    /\ outcome' = [op |-> "annotate", when |-> << >>, exc |-> NoExc,
                   val |-> annotate(input.year, input.month, input.day)]
    /\ UNCHANGED << input, now, cron >>

NextCalls ==
    \/ CallExpand
    \/ CallParseAtom
    \/ CallAsAnnotation
    \/ CallEq
    \/ CallSimplify
    \/ CallAnnotate

SpecCalls == InitCalls /\ [][NextCalls]_vars

\* ----------------------------------------------------------------- threads

\* Threads share one CronExpression: MaxCheckers of them call check_trigger
\* on it and one assigns to its text.  A step of a thread is one read or one
\* write of an attribute of the object (the interpreter may switch threads
\* between any two of them); what a function computes from values it has
\* already read is part of the step that follows.
MaxCheckers == 2

Checkers == 1 .. MaxCheckers

SetterThread == 0

\* "<minutes> <hours> * * *"
ClockText(minutes, hours) ==
    << minutes, hours, F1(Star), F1(Star), F1(Star) >>

\* The text the object is constructed from and the value assigned to its
\* text: "%7 %2 * * *" then "5 1 * * *", "0 0 5 * 1" then "0 0 7W * *",
\* "0 0 5 * 1" then "60 * * * *" (which does not compile), and "* * * * *"
\* then "@daily x" (whose construction raises TypeError).
ThreadInputs ==
    { [text |-> p[1], epoch |-> DEFAULT_EPOCH, with_seconds |-> FALSE,
       with_years |-> FALSE, value |-> p[2]] :
        p \in { << ClockText(F1(Percent(7)), F1(Percent(2))),
                   ClockText(F1(Num(5)), F1(Num(1))) >>,
                << DayText(F1(Num(5)), F1(Num(1))),
                   DayText(F1(AtomXW(7)), F1(Star)) >>,
                << DayText(F1(Num(5)), F1(Num(1))),
                   StarsWith(5, 1, F1(Num(60))) >>,
                << StarsWith(5, 0, F1(Star)),
                   << SpecialToken("@daily"), WordToken("x") >> >> } }

\* The instants check_trigger is called with.
ThreadWhens ==
    { << 1970, 1, 1, 0, 0 >>, << 1970, 1, 1, 1, 5 >>, << 1970, 1, 1, 2, 5 >>,
      << 1970, 1, 1, 2, 7 >>, << 2010, 11, 5, 0, 0 >>, << 2010, 11, 8, 0, 0 >> }

\* A thread that has not yet begun its call.
IdleChecker ==
    [pc |-> "call", epoch |-> {}, with_seconds |-> FALSE, constraints |-> {},
     exc |-> NoExc, val |-> FALSE]

IdleSetter == [pc |-> "call", saved |-> << >>, made |-> {}]

InitThreads ==
    /\ input \in ThreadInputs
    /\ now \in ThreadWhens
    /\ cron = Constructed(CronExpression_init(input.text, input.epoch,
                                              input.with_seconds,
                                              input.with_years))
    /\ outcome = [t \in Checkers \cup {SetterThread} |->
                    IF t = SetterThread THEN IdleSetter ELSE IdleChecker]

\* check_trigger: "self._epoch" is read.
check_trigger_epoch(t) ==
    /\ outcome[t].pc = "call"
    /\ outcome' = [outcome EXCEPT ![t].pc = "with_seconds",
                                  ![t].epoch = cron.attrs.epoch]
    /\ UNCHANGED << input, now, cron >>

\* check_trigger: "self._with_seconds" is read.
check_trigger_with_seconds(t) ==
    /\ outcome[t].pc = "with_seconds"
    /\ outcome' = [outcome EXCEPT ![t].pc = "constraints",
                                  ![t].with_seconds = cron.attrs.with_seconds]
    /\ UNCHANGED << input, now, cron >>

\* check_trigger: "*self._constraints" is read.
check_trigger_constraints(t) ==
    /\ outcome[t].pc = "constraints"
    /\ outcome' = [outcome EXCEPT ![t].pc = "constraints_met",
                                  ![t].constraints = cron.attrs.constraints]
    /\ UNCHANGED << input, now, cron >>

\* A variant of check_trigger_return that uses up the annotations of the
\* object.
check_trigger_return_consuming(t) ==
    /\ outcome[t].pc = "constraints_met"
    /\ outcome' = [outcome EXCEPT ![t].pc = "done"]
    /\ cron' = [cron EXCEPT !.attrs.constraints.annotations = {}]
    /\ UNCHANGED << input, now >>

\* check_trigger: constraints_met is called with the values read, and its
\* answer returned.
check_trigger_return(t) ==
    /\ outcome[t].pc = "constraints_met"
    /\ LET met == constraints_met(now, outcome[t].epoch,
                                  outcome[t].with_seconds,
                                  outcome[t].constraints.annotations,
                                  outcome[t].constraints.monotonic,
                                  outcome[t].constraints.fixed)
       IN  outcome' = [outcome EXCEPT
                          ![t].pc = "done",
                          ![t].exc = met.exc,
                          ![t].val = IF Raised(met) THEN FALSE ELSE met.val]
    /\ UNCHANGED << input, now, cron >>

\* The text setter: the text and the arguments of __init__ are read, and
\* __init__ runs up to its first assignment (or to the exception it raises).
text_setter_call ==
    /\ outcome[SetterThread].pc = "call"
    /\ outcome' = [outcome EXCEPT
                      ![SetterThread].pc = "init",
                      ![SetterThread].saved = cron.attrs.text,
                      ![SetterThread].made =
                          CronExpression_init(input.value, cron.attrs.epoch,
                                              cron.attrs.with_seconds,
                                              cron.attrs.with_years)]
    /\ UNCHANGED << input, now, cron >>

\* The text setter: "except: self._text = _text; raise".
text_setter_except ==
    /\ outcome[SetterThread].pc = "init"
    /\ outcome[SetterThread].made.excs # {}
    /\ cron' = [cron EXCEPT !.attrs.text = outcome[SetterThread].saved]
    /\ outcome' = [outcome EXCEPT ![SetterThread].pc = "raised"]
    /\ UNCHANGED << input, now >>

\* A variant of init_constraints that updates the constraint sets in place:
\* the fixed sets first, the monotonic sets not yet.
init_constraints_in_place ==
    /\ outcome[SetterThread].pc = "init"
    /\ outcome[SetterThread].made.excs = {}
    /\ cron' = [cron EXCEPT
                  !.attrs.constraints.fixed =
                      outcome[SetterThread].made.val.constraints.fixed]
    /\ outcome' = [outcome EXCEPT ![SetterThread].pc = "epoch"]
    /\ UNCHANGED << input, now >>

\* __init__: "self._constraints = generate_constraint_sets(fields, epoch)".
init_constraints ==
    /\ outcome[SetterThread].pc = "init"
    /\ outcome[SetterThread].made.excs = {}
    /\ cron' = [cron EXCEPT
                  !.attrs.constraints =
                      outcome[SetterThread].made.val.constraints]
    /\ outcome' = [outcome EXCEPT ![SetterThread].pc = "epoch"]
    /\ UNCHANGED << input, now >>

\* The attributes __init__ assigns after the constraints, in order.
INIT_ASSIGNMENTS ==
    << "epoch", "text", "with_seconds", "with_years", "comment",
       "expression" >>

\* __init__: "self._epoch = epoch" and the assignments that follow it, one
\* at each step.
init_assign ==
    \E i \in 1 .. Len(INIT_ASSIGNMENTS) :
        /\ outcome[SetterThread].pc = INIT_ASSIGNMENTS[i]
        /\ cron' = [cron EXCEPT
                      !.attrs[INIT_ASSIGNMENTS[i]] =
                          outcome[SetterThread].made.val[INIT_ASSIGNMENTS[i]]]
        /\ outcome' = [outcome EXCEPT
                          ![SetterThread].pc =
                              IF i < Len(INIT_ASSIGNMENTS)
                              THEN INIT_ASSIGNMENTS[i + 1]
                              ELSE "done"]
        /\ UNCHANGED << input, now >>

NextThreads ==
    \/ \E t \in Checkers : check_trigger_epoch(t)
    \/ \E t \in Checkers : check_trigger_with_seconds(t)
    \/ \E t \in Checkers : check_trigger_constraints(t)
    \/ \E t \in Checkers : check_trigger_return(t)
    \/ text_setter_call
    \/ text_setter_except
    \/ init_constraints
    \/ init_assign

SpecThreads == InitThreads /\ [][NextThreads]_vars

\* ------------------------------------------------------------- assignments

\* One caller assigns to the text of a CronExpression, time and again.

\* "<text> nightly job": a text followed by a comment of two words.
Commented(text) == text \o << WordToken("nightly"), WordToken("job") >>

\* The texts the expression is constructed from, with their flags: five
\* fields, and six fields the last of which is the years.
AssignInputs ==
    { Input(text, epoch, FALSE, FALSE) :
        text \in { StarsWith(5, 0, F1(Star)),
                   Commented(DayText(F1(Num(5)), F1(Num(1)))),
                   DayText(F1(AtomL), F1(Star)) },
        epoch \in { DEFAULT_EPOCH, Epoch(1970, 1, 1, None) } }
        \cup { Input(StarsWith(6, 6, F1(Num(2010))), DEFAULT_EPOCH, FALSE,
                     TRUE) }

\* The values assigned to the text: "* * * * *", "0 0 5 * 1 nightly job",
\* "0 0 7W * * nightly job", "%7 %2 * * *" (which needs the epoch's
\* timestamp), "* * * * * 1999" (six fields, or five and a comment),
\* "60 * * * *", "* * * *", "0 0 * * 5L" and "@daily x".
AssignedTexts ==
    { StarsWith(5, 0, F1(Star)),
      Commented(DayText(F1(Num(5)), F1(Num(1)))),
      Commented(DayText(F1(AtomXW(7)), F1(Star))),
      ClockText(F1(Percent(7)), F1(Percent(2))),
      StarsWith(6, 6, F1(Num(1999))),
      StarsWith(5, 1, F1(Num(60))),
      StarsWith(4, 0, F1(Star)),
      DayText(F1(Star), F1(AtomXL(5))),
      << SpecialToken("@daily"), WordToken("x") >> }

InitAssign ==
    /\ input \in AssignInputs
    /\ now = << >>
    /\ cron = Constructed(CronExpression_init(input.text, input.epoch,
                                              input.with_seconds,
                                              input.with_years))
    /\ outcome = NoCall

\* A variant of AssignText in which __init__ has assigned the text before it
\* compiles, and the setter does not put the old text back.
AssignText_unrestored ==
    \E value \in AssignedTexts :
    \E made \in {CronExpression_init(value, cron.attrs.epoch,
                                     cron.attrs.with_seconds,
                                     cron.attrs.with_years)} :
        /\ \/ /\ made.excs = {}
              /\ cron' = [cron EXCEPT !.attrs = made.val]
              /\ outcome' = [op |-> "text", when |-> << >>, exc |-> NoExc,
                             val |-> value]
           \/ /\ cron' = [cron EXCEPT !.attrs.text = value]
              /\ \E e \in made.excs :
                    outcome' = [op |-> "text", when |-> << >>, exc |-> e,
                                val |-> value]
        /\ UNCHANGED << input, now >>

\* cron.text = value: __init__ is called with the value and the object's own
\* epoch and flags, and assigns the attributes when it has compiled the
\* value; when it raises, the setter puts the text it had saved back and
\* raises again.
AssignText ==
    \E value \in AssignedTexts :
    \E made \in {CronExpression_init(value, cron.attrs.epoch,
                                     cron.attrs.with_seconds,
                                     cron.attrs.with_years)} :
        /\ \/ /\ made.excs = {}
              /\ cron' = [cron EXCEPT !.attrs = made.val]
              /\ outcome' = [op |-> "text", when |-> << >>, exc |-> NoExc,
                             val |-> value]
           \/ /\ cron' = [cron EXCEPT !.attrs.text = cron.attrs.text]
              /\ \E e \in made.excs :
                    outcome' = [op |-> "text", when |-> << >>, exc |-> e,
                                val |-> value]
        /\ UNCHANGED << input, now >>

NextAssign == AssignText

SpecAssign == InitAssign /\ [][NextAssign]_vars

\* -------------------------------------------------------------- properties

\* The last call was check_trigger and it returned.
Returned == outcome.op = "check_trigger" /\ outcome.exc = NoExc

\* The last call was check_trigger and it returned True.
Fired == Returned /\ outcome.val = TRUE

\* The caller's expression is "0 0 <days> * <dow>" with the default epoch and
\* neither optional field.
IsDayText(days, dow) ==
    input = Input(DayText(days, dow), DEFAULT_EPOCH, FALSE, FALSE)

\* A field that is a list of numbers, and the numbers it lists.
PlainNumbers(token) ==
    token.t = "field" /\ \A i \in 1 .. Len(token.atoms) : token.atoms[i].k = "num"

NumbersOf(token) == { token.atoms[i].a : i \in 1 .. Len(token.atoms) }

\* A field that is a list of days of the week, numbers or names.
PlainWeekdays(token) ==
    /\ token.t = "field"
    /\ \A i \in 1 .. Len(token.atoms) : token.atoms[i].k \in {"num", "dayname"}

\* The date of the instant check_trigger was last called with.
WhenDay == outcome.when[3]

WhenWeekday == Weekday(outcome.when[1], outcome.when[2], outcome.when[3])

WhenLastDay == DaysIn(outcome.when[1], outcome.when[2])

\* The seconds from the default epoch to that instant.
WhenElapsed ==
    mktime(outcome.when \o SubSeq(<< 0, 0, 0, -1 >>, Len(outcome.when) - 4, 4))

\* C1: with a days field that lists numbers (not all of 1-31) and a star for
\* the days of the week, check_trigger at 00:00 returns true if and only if
\* the day of the month is one of the numbers listed.
C1_FixedDaysOnly ==
    (/\ outcome.op = "check_trigger"
     /\ Len(input.text) = 5
     /\ PlainNumbers(input.text[3])
     /\ IsDayText(input.text[3], F1(Star)))
        => (Returned /\ (outcome.val <=> WhenDay \in NumbersOf(input.text[3])))

\* C2: with a days field that lists numbers D and a days-of-the-week field
\* that lists weekdays W, check_trigger at 00:00 returns true if and only if
\* the day of the month is in D or the weekday of the date is in W; "0 0 5 * 1"
\* fires in November 2010 on the Mondays (1, 8, 15, 22, 29) and on the 5th
\* only.
C2_DayOrWeekday ==
    /\ (/\ outcome.op = "check_trigger"
        /\ Len(input.text) = 5
        /\ PlainNumbers(input.text[3])
        /\ PlainWeekdays(input.text[5])
        /\ IsDayText(input.text[3], input.text[5]))
          => (/\ Returned
              /\ outcome.val <=> (\/ WhenDay \in NumbersOf(input.text[3])
                                  \/ WhenWeekday \in NumbersOf(input.text[5])))
    /\ (/\ outcome.op = "check_trigger"
        /\ IsDayText(F1(Num(5)), F1(Num(1)))
        /\ outcome.when[1] = 2010
        /\ outcome.when[2] = 11)
          => (Returned /\ (outcome.val <=> WhenDay \in {1, 5, 8, 15, 22, 29}))

\* "0 0 5 * 1" has fired on a Monday that is not the 5th.
C2_Witness ==
    /\ IsDayText(F1(Num(5)), F1(Num(1)))
    /\ Fired
    /\ outcome.when = << 2010, 11, 8, 0, 0 >>

\* C3: "0 0 L * *" fires at 00:00 on a date if and only if the date is the
\* last day of its month: in February 2010 on the 28th, in November 2010 on
\* the 30th and in February 2012 on the 29th.
C3_LastDayOfMonth ==
    (outcome.op = "check_trigger" /\ IsDayText(F1(AtomL), F1(Star)))
        => /\ Returned
           /\ outcome.val <=> (WhenDay = WhenLastDay)
           /\ << outcome.when[1], outcome.when[2] >> = << 2010, 2 >>
                => (outcome.val <=> WhenDay = 28)
           /\ << outcome.when[1], outcome.when[2] >> = << 2010, 11 >>
                => (outcome.val <=> WhenDay = 30)
           /\ << outcome.when[1], outcome.when[2] >> = << 2012, 2 >>
                => (outcome.val <=> WhenDay = 29)

\* "0 0 L * *" has fired on the 29th of February of a leap year.
C3_Witness ==
    /\ IsDayText(F1(AtomL), F1(Star))
    /\ Fired
    /\ outcome.when = << 2012, 2, 29, 0, 0 >>

\* The last weekday d of a month: the date's weekday is d and no later date
\* of the month has it.
WhenLastWeekday(d) == WhenWeekday = d /\ WhenDay + 7 > WhenLastDay

\* C4: "0 0 * * 5L" compiles and fires exactly on the last Friday of every
\* month.
C4_LastFriday ==
    /\ (outcome.op = "init" /\ IsDayText(F1(Star), F1(AtomXL(5))))
          => (outcome.exc = NoExc /\ cron # NoObject)
    /\ (outcome.op = "check_trigger" /\ IsDayText(F1(Star), F1(AtomXL(5))))
          => (Returned /\ (outcome.val <=> WhenLastWeekday(5)))

\* The weekday nearest the 7th of the month of the date: the 6th when the 7th
\* is a Saturday, the 8th when it is a Sunday, the 7th otherwise.
WhenNearest7 ==
    LET seventh == Weekday(outcome.when[1], outcome.when[2], 7)
    IN  IF seventh = 6 THEN 6 ELSE IF seventh = 0 THEN 8 ELSE 7

\* C5: "0 0 7W * *" fires in any month on the weekday nearest the 7th (the
\* 6th, the 8th or the 7th itself) and on no other day of the month.
C5_NearestWeekday ==
    (outcome.op = "check_trigger" /\ IsDayText(F1(AtomXW(7)), F1(Star)))
        => (Returned /\ (outcome.val <=> WhenDay = WhenNearest7))

\* "0 0 7W * *" has fired on a 6th, the 7th being a Saturday.
C5_Witness ==
    /\ IsDayText(F1(AtomXW(7)), F1(Star))
    /\ Fired
    /\ outcome.when = << 1970, 2, 6, 0, 0 >>
    /\ Weekday(1970, 2, 7) = 6

\* C6: "0 0 %45 * *" with the epoch 1970-01-01 fires at 00:00 only on the dates
\* a multiple of 45 days from the epoch: on 1970-02-15, and neither on
\* 1970-02-14 nor on 1970-02-16.
C6_DaysPeriod ==
    (outcome.op = "check_trigger" /\ IsDayText(F1(Percent(45)), F1(Star)))
        => /\ Returned
           /\ outcome.val <=> ((WhenElapsed \div 86400) % 45 = 0)
           /\ outcome.when = << 1970, 2, 15, 0, 0 >> => outcome.val
           /\ outcome.when \in { << 1970, 2, 14, 0, 0 >>, << 1970, 2, 16, 0, 0 >> }
                => ~outcome.val

\* The caller's expression is stars but for the period "%P" in one field,
\* with the default epoch.
IsPeriodText(count, position, with_seconds) ==
    /\ Len(input.text) = count
    /\ input.text[position].t = "field"
    /\ Len(input.text[position].atoms) = 1
    /\ input.text[position].atoms[1].k = "percent"
    /\ input = Input(StarsWith(count, position, input.text[position]),
                     DEFAULT_EPOCH, with_seconds, FALSE)

\* A period matches: floor(elapsed / unit) mod P = 0.
PeriodMatches(position, unit) ==
    (WhenElapsed \div unit) % input.text[position].atoms[1].a = 0

\* C7: a period in the seconds, minutes, hours or days field (the other fields
\* stars) matches an instant if and only if floor(elapsed seconds / unit)
\* mod P = 0, the unit 1, 60, 3600 or 86400: it matches at the epoch, and
\* alike at all instants of one unit.
C7_MonotonicPeriod ==
    /\ (outcome.op = "check_trigger" /\ IsPeriodText(6, 1, TRUE))
          => (Returned /\ (outcome.val <=> PeriodMatches(1, 1)))
    /\ (outcome.op = "check_trigger" /\ IsPeriodText(5, 1, FALSE))
          => (Returned /\ (outcome.val <=> PeriodMatches(1, 60)))
    /\ (outcome.op = "check_trigger" /\ IsPeriodText(5, 2, FALSE))
          => (Returned /\ (outcome.val <=> PeriodMatches(2, 3600)))
    /\ (outcome.op = "check_trigger" /\ IsPeriodText(5, 3, FALSE))
          => (Returned /\ (outcome.val <=> PeriodMatches(3, 86400)))

\* C8: a special token alone, with neither optional field, constructs an
\* expression whose constraint sets equal those of the five fields the token
\* stands for ("@yearly" and "0 0 1 1 *").
C8_SpecialTokenAlone ==
    \A target \in SUBSTITUTION_TARGETS :
        (/\ outcome.op = "init"
         /\ input = Input(<< SpecialToken(target) >>, DEFAULT_EPOCH, FALSE, FALSE))
            => /\ outcome.exc = NoExc
               /\ cron # NoObject
               /\ cron.attrs.constraints =
                    CronExpression_init(SUBSTITUTIONS(target), DEFAULT_EPOCH,
                                        FALSE, FALSE).val.constraints

\* C9: constructing from a text with a number outside the range of its field
\* ("60 * * * *", "* * * 13 *") raises OutOfBounds, with the name of that
\* field.
C9_OutOfBoundsObserved ==
    (outcome.op = "init" /\ input \in OutOfRangeInputs)
        => \E position \in 1 .. 5 :
              /\ input.text[position] # F1(Star)
              /\ outcome.exc = Exc("OutOfBounds", FIELDS[position + 1])

\* The fields a text needs: five, and one for each optional field.
Needed == 5 + (IF input.with_seconds THEN 1 ELSE 0)
            + (IF input.with_years THEN 1 ELSE 0)

\* The text is fields only (no special token), fewer than it needs.
TooFewFields ==
    /\ \A i \in 1 .. Len(input.text) : input.text[i].t = "field"
    /\ Len(input.text) < Needed

ExpandedRange ==
    /\ outcome.op = "expand"
    /\ input.atom.k = "range"

\* The step of the range expand was called with: 1 when it has none.
RangeStepOf == IF input.atom.s = None THEN 1 ELSE input.atom.s

\* C11: for "A-B" with A <= B (A = B included) expand yields {A, ..., B}, and
\* with a step S every S-th value from A up to B.
C11_RangeExpansion ==
    (ExpandedRange /\ input.atom.a <= input.atom.b)
        => /\ outcome.exc = NoExc
           /\ outcome.val =
                { v \in input.atom.a .. input.atom.b :
                    (v - input.atom.a) % RangeStepOf = 0 }

\* C12: for a wraparound range "A-B" with A > B and no step, expand yields
\* {A, ..., max} and {min, ..., B} together.
C12_WraparoundRange ==
    (ExpandedRange /\ input.atom.a > input.atom.b /\ input.atom.s = None)
        => /\ outcome.exc = NoExc
           /\ outcome.val =
                (input.atom.a .. FIELD_RANGES(input.field)[2])
                    \cup (FIELD_RANGES(input.field)[1] .. input.atom.b)

\* expand("months", "10-2") has returned {10, 11, 12, 1, 2}.
C12_Witness ==
    /\ ExpandedRange
    /\ input.field = FIELD_MONTHS
    /\ input.atom = Range(10, 2)
    /\ outcome.exc = NoExc
    /\ outcome.val = {10, 11, 12, 1, 2}

\* The place of a value in the sequence A, A+1, ..., max, min, ..., counted
\* from 0 at A.
PlaceFromFirst(value) ==
    (value - input.atom.a)
        % (FIELD_RANGES(input.field)[2] - FIELD_RANGES(input.field)[1] + 1)

\* C20: for a wraparound range with a step, "A-B/S" with A > B, expand yields
\* every S-th element of A, ..., max, min, ..., B counted from A: "5-1/3" in
\* the days of the week yields {5, 1}, "10-5/2" in the months {10, 12, 2, 4},
\* and a step no less than the length of the sequence yields {A}.
C20_WraparoundStep ==
    (ExpandedRange /\ input.atom.a > input.atom.b /\ input.atom.s # None)
        => /\ outcome.exc = NoExc
           /\ outcome.val =
                { v \in FIELD_RANGES(input.field)[1]
                            .. FIELD_RANGES(input.field)[2] :
                    /\ PlaceFromFirst(v) <= PlaceFromFirst(input.atom.b)
                    /\ PlaceFromFirst(v) % input.atom.s = 0 }
           /\ input.atom.s > PlaceFromFirst(input.atom.b)
                => outcome.val = {input.atom.a}
           /\ (input.field = FIELD_DOTW /\ input.atom = RangeStep(5, 1, 3))
                => outcome.val = {5, 1}
           /\ (input.field = FIELD_MONTHS /\ input.atom = RangeStep(10, 5, 2))
                => outcome.val = {10, 12, 2, 4}

\* expand("months", "10-5/2") has returned {10, 12, 2, 4}.
C20_Witness ==
    /\ ExpandedRange
    /\ input.field = FIELD_MONTHS
    /\ input.atom = RangeStep(10, 5, 2)
    /\ outcome.exc = NoExc
    /\ outcome.val = {10, 12, 2, 4}

\* parse_atom has been called with "%P" in the given field, P no less than 2
\* and a divisor of the field's cycle, and an epoch valid for the field.
ParsedPeriod(field, cycle) ==
    /\ outcome.op = "parse_atom"
    /\ input.field = field
    /\ input.atom.k = "percent"
    /\ input.atom.a >= 2
    /\ cycle % input.atom.a = 0

\* C13: for a period P that divides 12 in the months field, and one that
\* divides 60 in the seconds field, parse_atom returns a fixed set that holds
\* a candidate's month (second) if and only if the months (seconds) elapsed
\* since the epoch are a multiple of P, for every epoch valid for the field.
C13_PeriodReduction ==
    /\ (ParsedPeriod(FIELD_MONTHS, 12) /\ input.epoch.month # None)
          => /\ outcome.exc = NoExc
             /\ outcome.val.mode = CONSTRAINT_FIXED
             /\ \A year \in input.epoch.year - 1 .. input.epoch.year + 1 :
                  \A month \in 1 .. 12 :
                    (month \in outcome.val.value)
                        <=> (((year - input.epoch.year) * 12
                                + month - input.epoch.month)
                               % input.atom.a = 0)
    /\ (ParsedPeriod(FIELD_SECONDS, 60) /\ input.epoch.timestamp # None)
          => /\ outcome.exc = NoExc
             /\ outcome.val.mode = CONSTRAINT_FIXED
             /\ \A timestamp \in input.epoch.timestamp - 60
                                    .. input.epoch.timestamp + 120 :
                    ((timestamp % 60) \in outcome.val.value)
                        <=> ((timestamp - input.epoch.timestamp)
                                % input.atom.a = 0)

\* parse_atom("months", "%3", epoch) with an epoch in February has returned
\* the fixed set {2, 5, 8, 11}.
C13_Witness ==
    /\ ParsedPeriod(FIELD_MONTHS, 12)
    /\ input.atom.a = 3
    /\ input.epoch.month = 2
    /\ outcome.exc = NoExc
    /\ outcome.val = [mode |-> CONSTRAINT_FIXED, value |-> {2, 5, 8, 11}]

\* The instant check_trigger was last called with has the fields the
\* expression needs: the seconds too when it has a seconds field.
WellFormedWhen ==
    /\ outcome.op = "check_trigger"
    /\ Len(outcome.when) >= (IF cron.attrs.with_seconds THEN 6 ELSE 5)
    /\ Len(outcome.when) <= 9

\* C14: check_trigger on a compiled expression, whatever its epoch lacks, and
\* a well-formed instant returns a boolean and never raises.
C14_CheckTriggerNeverRaises ==
    WellFormedWhen => (outcome.exc = NoExc /\ outcome.val \in BOOLEAN)

\* C15: "0 0 * * 5#<n>" with n in 1..5 compiles and fires on a date if and
\* only if the date is the n-th Friday of its month; n outside 1..5 is
\* rejected when the expression is constructed.
C15_NthWeekday ==
    \A n \in 0 .. 6 :
        /\ (/\ outcome.op = "init"
            /\ IsDayText(F1(Star), F1(AtomXHX(5, n))))
              => IF n \in 1 .. 5
                 THEN outcome.exc = NoExc /\ cron # NoObject
                 ELSE outcome.exc # NoExc /\ cron = NoObject
        /\ (/\ outcome.op = "check_trigger"
            /\ IsDayText(F1(Star), F1(AtomXHX(5, n))))
              => /\ Returned
                 /\ outcome.val <=>
                        (WhenWeekday = 5 /\ ((WhenDay - 1) \div 7) + 1 = n)

\* The fields a dynamic construct may be used in.
PermittedFields(atom) ==
    CASE atom.k = "L" -> {FIELD_DAYS, FIELD_DOTW}
      [] atom.k \in {"L-", "xW"} -> {FIELD_DAYS}
      [] atom.k \in {"xL", "x#x"} -> {FIELD_DOTW}

\* C16: a dynamic construct in a field other than its permitted field is
\* rejected with InvalidUsage naming the field, whatever its numbers are, by
\* as_annotation and by parse_atom.
C16_InvalidUsage ==
    (/\ outcome.op \in {"as_annotation", "parse_atom"}
     /\ input.atom \in DynamicAtoms
     /\ input.field \notin PermittedFields(input.atom))
        => outcome.exc = Exc("InvalidUsage", input.field)

\* The text has no period but in its clock fields (seconds, minutes, hours).
ClockPeriodsOnly(of) ==
    \A i \in 1 .. Len(of.text) :
        (\E j \in 1 .. Len(of.text[i].atoms) :
            of.text[i].atoms[j].k = "percent")
          => i <= (IF of.with_seconds THEN 3 ELSE 2)

\* C17: two expressions of the same text, with periods in clock fields only,
\* compare equal when their epochs have the same timestamp, whatever the
\* dates of the epochs.
C17_EqualityIgnoresDate ==
    (/\ outcome.op = "eq"
     /\ input.left.text = input.right.text
     /\ input.left.with_seconds = input.right.with_seconds
     /\ input.left.with_years = input.right.with_years
     /\ ClockPeriodsOnly(input.left)
     /\ input.left.epoch.timestamp = input.right.epoch.timestamp)
        => outcome.val = TRUE

\* What the expression compiled from a text answers for the instant `now',
\* with the epoch and the flags the object was constructed with.
AnswerOf(text) ==
    LET made == CronExpression_init(text, input.epoch, input.with_seconds,
                                    input.with_years)
    IN  constraints_met(now, input.epoch, input.with_seconds,
                        made.val.constraints.annotations,
                        made.val.constraints.monotonic,
                        made.val.constraints.fixed)

\* The answer a thread's call of check_trigger has returned.
AnswerIn(t) == [exc |-> outcome[t].exc, val |-> outcome[t].val]

\* The value assigned to the text compiles.
ValueCompiles ==
    CronExpression_init(input.value, input.epoch, input.with_seconds,
                        input.with_years).excs = {}

\* C18: while threads call check_trigger on one object and nothing assigns
\* to it, every call returns what it would return when run alone (the answer
\* of the object's expression for the instant), in any interleaving of the
\* calls; and no step of a check_trigger call (a step in which a calling
\* thread advances) changes the object (its constraint sets, epoch, text,
\* comment and flags).
C18_ConcurrentChecks ==
    /\ [](outcome[SetterThread].pc = "call"
            => \A t \in Checkers :
                  outcome[t].pc = "done"
                      => /\ AnswerIn(t).exc = AnswerOf(cron.attrs.text).exc
                         /\ AnswerIn(t).val = AnswerOf(cron.attrs.text).val)
    /\ [][(\E t \in Checkers : outcome'[t].pc # outcome[t].pc)
            => cron' = cron]_vars

\* Two calls of check_trigger have finished with nothing assigning to the
\* object, and have answered that the expression fires.
C18_Witness ==
    /\ outcome[SetterThread].pc = "call"
    /\ \A t \in Checkers : outcome[t].pc = "done" /\ outcome[t].val
    /\ input.text = DayText(F1(Num(5)), F1(Num(1)))
    /\ now = << 2010, 11, 8, 0, 0 >>

\* C19: when a thread assigns to the text while other threads call
\* check_trigger, the answer of every call is the answer of the expression
\* compiled from the old text or of the one compiled from the new text (of
\* the old one only when the new text does not compile), never of a mixture;
\* and the object's constraint set is always the old one or the new one,
\* whole.
C19_ReplaceNotMixture ==
    /\ \A t \in Checkers :
          outcome[t].pc = "done"
              => \/ /\ AnswerIn(t).exc = AnswerOf(input.text).exc
                    /\ AnswerIn(t).val = AnswerOf(input.text).val
                 \/ /\ ValueCompiles
                    /\ AnswerIn(t).exc = AnswerOf(input.value).exc
                    /\ AnswerIn(t).val = AnswerOf(input.value).val
    /\ \/ cron.attrs.constraints
            = CronExpression_init(input.text, input.epoch, input.with_seconds,
                                  input.with_years).val.constraints
       \/ /\ ValueCompiles
          /\ cron.attrs.constraints
               = CronExpression_init(input.value, input.epoch,
                                     input.with_seconds,
                                     input.with_years).val.constraints

\* A call of check_trigger has finished while __init__, called by the text
\* setter, had assigned the constraints and not yet the epoch; the other
\* call had read the constraints before the assignment.  "0 0 5 * 1" fires
\* on 2010-11-05 and "0 0 7W * *" does not: the first call answers for the
\* new text and the other will answer for the old one.
C19_Witness ==
    /\ outcome[SetterThread].pc = "epoch"
    /\ input.text = DayText(F1(Num(5)), F1(Num(1)))
    /\ input.value = DayText(F1(AtomXW(7)), F1(Star))
    /\ now = << 2010, 11, 5, 0, 0 >>
    /\ outcome[1].pc = "done"
    /\ ~outcome[1].val
    /\ AnswerOf(input.text).val
    /\ outcome[2].pc = "constraints_met"
    /\ outcome[2].constraints # cron.attrs.constraints

\* C21: for a wraparound range with a step, "A-B/S" with A > B, the step
\* starts again at the low end of the range: the values expand takes from
\* min, ..., B are min, min + S, min + 2S, ... up to B, however many it has
\* taken from A, ..., max.
C21_StepRestartsLow ==
    (ExpandedRange /\ input.atom.a > input.atom.b /\ input.atom.s # None)
        => /\ outcome.exc = NoExc
           /\ { v \in outcome.val : v <= input.atom.b }
                = { v \in FIELD_RANGES(input.field)[1] .. input.atom.b :
                      (v - FIELD_RANGES(input.field)[1]) % input.atom.s = 0 }

\* C22: for a period P no less than 2 in the years field and an epoch whose
\* year is within 1970..9999, parse_atom returns the fixed set of the years
\* epoch.year + k * P (k >= 0) up to the field's maximum 9999, 9999 itself
\* included when it is one of them.
C22_YearsPeriod ==
    (/\ outcome.op = "parse_atom"
     /\ input.field = FIELD_YEARS
     /\ input.atom.k = "percent"
     /\ input.atom.a >= 2
     /\ input.epoch.year \in 1970 .. 9999)
        => /\ outcome.exc = NoExc
           /\ outcome.val.mode = CONSTRAINT_FIXED
           /\ outcome.val.value
                = { year \in input.epoch.year .. 9999 :
                      (year - input.epoch.year) % input.atom.a = 0 }

\* Some period of the set divides the number.
MatchedBy(periods, number) == \E period \in periods : number % period = 0

\* C23: for a non-empty set of periods simplify_monotonic_series returns a
\* subset of it in which no period divides another and of which every period
\* of the set is a multiple of some period, so that the periods returned
\* match the numbers the set matches; and simplifying what it returned
\* returns the same.
C23_SimplifiedSeries ==
    outcome.op = "simplify_monotonic_series"
        => /\ outcome.val \subseteq input.series
           /\ \A p \in outcome.val : \A q \in outcome.val :
                 (p # q) => (q % p # 0)
           /\ \A q \in input.series : MatchedBy(outcome.val, q)
           /\ \A number \in 0 .. 2 * MaxSeries * MaxSeries :
                 MatchedBy(input.series, number)
                     <=> MatchedBy(outcome.val, number)
           /\ simplify_monotonic_series(outcome.val) = outcome.val

\* simplify_monotonic_series({2, 3, 4, 9}) has returned {2, 3}.
C23_Witness ==
    /\ outcome.op = "simplify_monotonic_series"
    /\ input.series = {2, 3, 4, 9}
    /\ outcome.val = {2, 3}

\* The values of a field's range.
RangeOf(field) == FIELD_RANGES(field)[1] .. FIELD_RANGES(field)[2]

\* C24: in the constraint set of a constructed expression, a field whose
\* fixed values cover its whole range has the wildcard sentinel for its
\* fixed set and no period; any other field has a fixed set that is a proper
\* subset of its range, and no period that is a multiple of another.
C24_ConstraintSetInvariant ==
    cron.constructed
        => \A field \in DOMAIN cron.attrs.constraints.fixed :
              IF cron.attrs.constraints.fixed[field].asterisk
              THEN cron.attrs.constraints.monotonic[field] = {}
              ELSE /\ cron.attrs.constraints.fixed[field].values
                        \subseteq RangeOf(field)
                   /\ cron.attrs.constraints.fixed[field].values
                        # RangeOf(field)
                   /\ \A p \in cron.attrs.constraints.monotonic[field] :
                        \A q \in cron.attrs.constraints.monotonic[field] :
                          (p # q) => (q % p # 0)

\* The last call of check_trigger, at 00:00 on an expression "0 0 <days> *
\* <dow>" that carries annotations, found the day neither among the fixed
\* days nor on a period of the days.
DayLeftToAnnotations ==
    /\ Returned
    /\ Len(input.text) = 5
    /\ IsDayText(input.text[3], input.text[5])
    /\ cron.attrs.constraints.annotations # {}
    /\ ~(/\ cron.attrs.constraints.fixed[FIELD_DAYS] # ASTERISK
         /\ Contains(WhenDay, cron.attrs.constraints.fixed[FIELD_DAYS]))
    /\ ~check_monotonic(WhenElapsed - input.epoch.timestamp,
                        cron.attrs.constraints.monotonic[FIELD_DAYS], 86400)

\* C25: when the day is neither among the fixed days nor on a period of the
\* days and the expression carries annotations, check_trigger returns true
\* if and only if the annotations of the date include every annotation of
\* the expression.
C25_AnnotationSuperset ==
    DayLeftToAnnotations
        => (outcome.val
              <=> cron.attrs.constraints.annotations
                    \subseteq annotate(outcome.when[1], outcome.when[2],
                                       outcome.when[3]))

\* The Monday-to-Friday nearest to day d of a month that lies in the month:
\* d itself on a weekday, the day before a Saturday (two days after it when
\* it is the 1st), the day after a Sunday (two days before it when it is the
\* last day).
NearestWeekdayOf(year, month, d) ==
    IF Weekday(year, month, d) = 6
    THEN IF d = 1 THEN d + 2 ELSE d - 1
    ELSE IF Weekday(year, month, d) = 0
    THEN IF d = DaysIn(year, month) THEN d - 2 ELSE d + 1
    ELSE d

\* C26: annotate gives a date the nearest-weekday annotation of d if and
\* only if d is a day of the month (1 <= d <= last day) and the date is the
\* Monday-to-Friday nearest to d within the month; so each day of the month
\* is carried by exactly one date.
C26_NearestWeekdayAnnotation ==
    outcome.op = "annotate"
        => \A d \in -2 .. 35 :
              (<< ANNOTATION_XW, d >> \in outcome.val)
                  <=> (/\ 1 <= d
                       /\ d <= DaysIn(input.year, input.month)
                       /\ input.day
                            = NearestWeekdayOf(input.year, input.month, d))

\* The days from the epoch's date to the date of the instant check_trigger
\* was last called with.
WhenDaysFromEpoch ==
    DaysFromCivil(outcome.when[1], outcome.when[2], outcome.when[3])
        - DaysFromCivil(input.epoch.year, input.epoch.month, input.epoch.day)

\* C27: a period in the days field counts calendar days, not blocks of 24
\* hours from the epoch's timestamp: with "0 0 %2 * *" the check of the days
\* period passes exactly when the date of the instant is a multiple of 2
\* days from the date of the epoch, whatever the times of day; with the
\* epoch 2010-11-16 23:59 it passes at 2010-11-18 00:00.
C27_CalendarDays ==
    (/\ Returned
     /\ input.text = DayText(F1(Percent(2)), F1(Star))
     /\ cron.attrs.constraints.monotonic[FIELD_DAYS] = {2})
        => (check_monotonic(WhenElapsed - input.epoch.timestamp,
                            cron.attrs.constraints.monotonic[FIELD_DAYS],
                            86400)
              <=> WhenDaysFromEpoch % 2 = 0)

\* A leap year of the Gregorian calendar: divisible by 4 and not by 100, or
\* divisible by 400.
LeapYear(year) ==
    \/ year % 4 = 0 /\ year % 100 # 0
    \/ year % 400 = 0

\* The number of days of a month of the Gregorian calendar.
MonthLength(year, month) ==
    IF month = 2
    THEN IF LeapYear(year) THEN 29 ELSE 28
    ELSE IF month \in {4, 6, 9, 11} THEN 30 ELSE 31

\* C28: for a date of the Gregorian calendar, the year within 1970..9999,
\* the day-of-the-week annotation of annotate holds the weekday of the date
\* (0: Sunday) as counted in days from Thursday 1970-01-01, and the
\* days-to-the-end-of-the-month annotation holds the length of the month less
\* the day, February having 29 days in leap years only.
C28_WeekdayAndMonthEnd ==
    outcome.op = "annotate"
        => /\ { a \in outcome.val : a[1] = ANNOTATION_DOTW }
                = {<< ANNOTATION_DOTW,
                      Weekday(input.year, input.month, input.day) >>}
           /\ { a \in outcome.val : a[1] = ANNOTATION_L_LX }
                = {<< ANNOTATION_L_LX,
                      MonthLength(input.year, input.month) - input.day >>}

\* annotate(2100, 2, 28) has returned the annotations of a Sunday that is
\* the last day of its month: 2100 is no leap year.
C28_Witness ==
    /\ outcome.op = "annotate"
    /\ input.year = 2100
    /\ input.month = 2
    /\ input.day = 28
    /\ << ANNOTATION_DOTW, 0 >> \in outcome.val
    /\ << ANNOTATION_L_LX, 0 >> \in outcome.val

\* The attributes of a fresh CronExpression built from the object's text
\* with the epoch and the flags the object was constructed with.
FreshFromText ==
    CronExpression_init(cron.attrs.text, input.epoch, input.with_seconds,
                        input.with_years)

\* C29: after any sequence of assignments to the text, the object's text is
\* the value of the last assignment that raised nothing (the constructor's
\* text when there is none), and its text, comment, expression and
\* constraint set are those of a fresh CronExpression built from that text
\* with the original epoch and flags; an assignment that raises changes
\* nothing of the object.
C29_AssignmentsKeepFresh ==
    /\ [](/\ FreshFromText.excs = {}
          /\ cron.attrs = FreshFromText.val
          /\ (outcome.op = "text" /\ outcome.exc = NoExc)
                => cron.attrs.text = outcome.val
          /\ outcome.op = "none" => cron.attrs.text = input.text)
    /\ [][outcome'.exc # NoExc => cron' = cron]_vars

\* The text was "0 0 7W * * nightly job" when the assignment of "60 * * * *"
\* raised: the object has kept the text, and its comment.
C29_Witness ==
    /\ outcome.op = "text"
    /\ outcome.exc # NoExc
    /\ outcome.val = StarsWith(5, 1, F1(Num(60)))
    /\ cron.attrs.text = Commented(DayText(F1(AtomXW(7)), F1(Star)))
    /\ cron.attrs.text # input.text
    /\ cron.attrs.comment = << WordToken("nightly"), WordToken("job") >>

\* C30: in every state of the object another thread can see, the states
\* between the assignments of a text replacement included, the constraint
\* set stored is the compilation of the text stored, and the comment and the
\* expression stored are those derived from the text stored.
C30_StoredTextCompiled ==
    /\ FreshFromText.excs = {}
    /\ cron.attrs.constraints = FreshFromText.val.constraints
    /\ cron.attrs.comment = FreshFromText.val.comment
    /\ cron.attrs.expression = FreshFromText.val.expression

====
